---- MODULE Spec2Model ----
(***************************************************************************)
(* Model of glide-core/build.rs: the cargo build script that, when the     *)
(* `proto` feature is on, configures a protobuf_codegen::Codegen builder   *)
(* call by call and runs it with run_from_script().                        *)
(*                                                                         *)
(* build.rs only calls the builder; what each call does (cargo_out_dir     *)
(* sets the output directory under $OUT_DIR and marks it to be erased and  *)
(* recreated, out_dir replaces the output directory only, run() recreates  *)
(* the directory, parses all inputs with protoc, then writes one module    *)
(* per input and mod.rs, run_from_script exits with code 1 on an error) is *)
(* the documented behaviour of protobuf-codegen 3 and std::env::var.       *)
(*                                                                         *)
(* One build is one execution of main().  The filesystem survives from one *)
(* build to the next; the feature flag, the environment and the schema     *)
(* files are fixed at the start of each build.                             *)
(*                                                                         *)
(* Rust's Option<T> is modelled as a set with at most one element.         *)
(***************************************************************************)
EXTENDS Integers, Sequences, FiniteSets, TLC

(* ------------------------------ bounds --------------------------------- *)
\* number of consecutive builds explored
MaxBuilds == 2

(* --------------------- literals of build.rs ---------------------------- *)
CargoOutRel    == "protobuf"                                    \* line 14
IncludeDir     == <<"src">>                                     \* line 15
CommandRequest == <<"src", "protobuf", "command_request.proto">>     \* line 16
Response       == <<"src", "protobuf", "response.proto">>            \* line 17
ConnectionRequest == <<"src", "protobuf", "connection_request.proto">> \* line 18
SrcGenerated   == <<"src", "generated">>                        \* line 20
\* cargo sets OUT_DIR for every build script; cargo_out_dir joins it with rel
CargoOutDir(rel) == <<"$OUT_DIR", rel>>

InputFiles == <<CommandRequest, Response, ConnectionRequest>>
InputSet == {CommandRequest, Response, ConnectionRequest}
Dirs == {SrcGenerated, CargoOutDir(CargoOutRel)}

(* --------------------- the build's environment ------------------------- *)
\* what a schema file may hold: two well-formed versions, one malformed
Contents == {"v1", "v2", "invalid"}
\* the schema files of one build: at most one file differs from version v1
SchemaChoices ==
    {s \in [InputSet -> Contents] : Cardinality({p \in InputSet : s[p] # "v1"}) <= 1}
\* the values PROTOC_PATH may have: unset, an installed binary, a path where
\* nothing is installed, a path that is not valid Unicode (an installed binary)
EnvUnset      == [present |-> FALSE, unicode |-> TRUE,  value |-> ""]
EnvOpt        == [present |-> TRUE,  unicode |-> TRUE,  value |-> "/opt/protoc"]
EnvNowhere    == [present |-> TRUE,  unicode |-> TRUE,  value |-> "/nowhere/protoc"]
EnvNotUnicode == [present |-> TRUE,  unicode |-> FALSE, value |-> "/opt/\\xFF/protoc"]
EnvChoices == {EnvUnset, EnvOpt, EnvNowhere, EnvNotUnicode}
\* binaries that exist at an explicit path
Installed == {"/opt/protoc", "/opt/\\xFF/protoc"}
\* what the standard search ("protoc" on PATH) finds: nothing or one binary
PathChoices == {{}, {"/usr/bin/protoc"}}

\* a file of the output directories: name and bytes; the bytes of a generated
\* module are determined by the schema it was generated from, the compiler
\* that parsed it and the customization
File(name, schema, parser, lite) ==
    [name |-> name, schema |-> schema, parser |-> parser, lite |-> lite]
StaleFile == File("old_request.rs", "v0", "/usr/bin/protoc", "true")
NoDir    == [exists |-> FALSE, files |-> {}]
EmptyDir == [exists |-> TRUE,  files |-> {}]
StaleDir == [exists |-> TRUE,  files |-> {StaleFile}]

VARIABLES
    build,          \* number of the current build
    pc,             \* position of the build script
    proto,          \* cfg(feature = "proto") of the current build
    PROTOC_PATH,    \* the environment variable of the current build
    pathProtoc,     \* protoc found by the standard search, as an Option
    schemas,        \* content of each input schema file
    diskOk,         \* FALSE: writes to the filesystem may fail
    customization_options,  \* local of build_protobuf, lines 5-8
    constructed,    \* Codegen::new() has been called in this build
    codegen,        \* local of build_protobuf, line 9
    fs,             \* the directories the script can write to
    wi,             \* number of output files written by the running generation
    used,           \* compiler binary resolved by the running generation (Option)
    result,         \* outcome of run(): "none", "ok" or the error
    runCount,       \* number of calls of run_from_script in this build
    fsAtStart,      \* fs when the current build started
    last            \* the previous generation run, if it succeeded: its inputs,
                    \* its compiler and the output directory it left

vars == <<build, pc, proto, PROTOC_PATH, pathProtoc, schemas, diskOk,
          customization_options, constructed, codegen, fs, wi, used, result,
          runCount, fsAtStart, last>>

env    == <<proto, PROTOC_PATH, pathProtoc, schemas, diskOk>>
ghosts == <<fsAtStart, last>>

(* ----------------------- protobuf_codegen values ----------------------- *)
\* Customize::default(): every option unset
CustomizeDefault ==
    [lite_runtime |-> "unset", tokio_bytes |-> "unset",
     tokio_bytes_for_string |-> "unset"]
\* Codegen::new(): nothing configured
CodegenNew ==
    [protoc |-> {}, create_out_dir |-> FALSE, out_dir |-> {},
     includes |-> <<>>, inputs |-> <<>>, customize |-> CustomizeDefault]

\* std::env::var: Ok(value) only when the variable is present and valid Unicode
EnvVar(v) ==
    IF v.present /\ v.unicode THEN [ok |-> TRUE, value |-> v.value]
    ELSE [ok |-> FALSE, value |-> ""]

NoLast == [ok |-> FALSE, schemas |-> [p \in InputSet |-> "v1"],
           used |-> {}, out |-> NoDir]

Init ==
    /\ build = 1
    /\ proto \in BOOLEAN
    /\ PROTOC_PATH \in EnvChoices
    /\ pathProtoc \in PathChoices
    /\ schemas \in SchemaChoices
    /\ diskOk \in BOOLEAN
    /\ fs \in [Dirs -> {NoDir, StaleDir}]
    /\ fsAtStart = fs
    /\ last = NoLast
    /\ pc = "main"
    /\ customization_options = CustomizeDefault
    /\ constructed = FALSE
    /\ codegen = CodegenNew
    /\ wi = 0
    /\ used = {}
    /\ result = "none"
    /\ runCount = 0

(* ------------- protobuf_codegen builder calls used by build.rs --------- *)
lite_runtime(o, b)           == [o EXCEPT !.lite_runtime = b]
tokio_bytes(o, b)            == [o EXCEPT !.tokio_bytes = b]
tokio_bytes_for_string(o, b) == [o EXCEPT !.tokio_bytes_for_string = b]

protoc_path(c, p) == [c EXCEPT !.protoc = {p}]
\* variant: the directory is not marked to be erased and recreated
cargo_out_dir_keep(c, rel) == [c EXCEPT !.out_dir = {CargoOutDir(rel)}]
\* cargo_out_dir: $OUT_DIR/rel becomes the output directory and the directory
\* is to be erased and recreated by run()
cargo_out_dir(c, rel) ==
    [c EXCEPT !.create_out_dir = TRUE, !.out_dir = {CargoOutDir(rel)}]
include(c, p)   == [c EXCEPT !.includes = Append(@, p)]
input(c, p)     == [c EXCEPT !.inputs = Append(@, p)]
\* variant: the customization is not stored
customize_dropped(c, o) == c
customize(c, o) == [c EXCEPT !.customize = o]
\* variant: the call has no effect
out_dir_dropped(c, p) == c
\* out_dir replaces the output directory and nothing else
out_dir(c, p)   == [c EXCEPT !.out_dir = {p}]

(* ------------------------- what run() produces ------------------------- *)
\* the module generated from one schema file
ModuleName(p) ==
    CASE p = CommandRequest    -> "command_request.rs"
      [] p = Response          -> "response.rs"
      [] p = ConnectionRequest -> "connection_request.rs"
      [] OTHER                 -> "other.rs"

\* variant: mod.rs carries a stamp of the build that wrote it
Artifact_stamped(c, k, bin) ==
    IF k <= Len(c.inputs)
    THEN File(ModuleName(c.inputs[k]), schemas[c.inputs[k]], bin,
              c.customize.lite_runtime)
    ELSE File("mod.rs", ToString(build), "-", "-")
\* the k-th file run() writes: one module per input, in order, then mod.rs
Artifact(c, k, bin) ==
    IF k <= Len(c.inputs)
    THEN File(ModuleName(c.inputs[k]), schemas[c.inputs[k]], bin,
              c.customize.lite_runtime)
    ELSE File("mod.rs", "-", "-", "-")

NumArtifacts(c) == Len(c.inputs) + 1

\* writing a file replaces the file of that name
WriteFile(dir, f) ==
    [dir EXCEPT !.files = {g \in @ : g.name # f.name} \cup {f}]

\* a binary can be executed when it is installed at the given path or was
\* found by the standard search
Executable(bin) == bin \in Installed \/ bin \in pathProtoc

\* outcomes of one filesystem operation in this build
WriteOutcomes == IF diskOk THEN {TRUE} ELSE BOOLEAN

(* ------------------------------ main ----------------------------------- *)
\* variant: the call is compiled in whatever the feature
main_ungated ==
    /\ pc = "main"
    /\ pc' = "customization_options"
    /\ UNCHANGED <<build, env, customization_options, constructed, codegen,
                   fs, wi, used, result, runCount, ghosts>>
\* lines 24-27: the call exists only with cfg(feature = "proto")
main ==
    /\ pc = "main"
    /\ pc' = IF proto THEN "customization_options" ELSE "done"
    /\ UNCHANGED <<build, env, customization_options, constructed, codegen,
                   fs, wi, used, result, runCount, ghosts>>

(* -------------------------- build_protobuf ----------------------------- *)
\* lines 5-8
LetCustomizationOptions ==
    /\ pc = "customization_options"
    /\ customization_options' =
           tokio_bytes_for_string(
               tokio_bytes(lite_runtime(CustomizeDefault, "false"), "true"),
               "true")
    /\ pc' = "codegen"
    /\ UNCHANGED <<build, env, constructed, codegen, fs, wi, used, result,
                   runCount, ghosts>>

\* line 9
LetCodegen ==
    /\ pc = "codegen"
    /\ constructed' = TRUE
    /\ codegen' = CodegenNew
    /\ pc' = "protoc_path"
    /\ UNCHANGED <<build, env, customization_options, fs, wi, used, result,
                   runCount, ghosts>>

\* lines 10-12
IfLetProtocPath ==
    /\ pc = "protoc_path"
    /\ LET r == EnvVar(PROTOC_PATH)
       IN  codegen' = IF r.ok THEN protoc_path(codegen, r.value) ELSE codegen
    /\ pc' = "cargo_out_dir"
    /\ UNCHANGED <<build, env, customization_options, constructed, fs, wi,
                   used, result, runCount, ghosts>>

\* one call of the chain of lines 13-20
Chain(at, c, next) ==
    /\ pc = at
    /\ codegen' = c
    /\ pc' = next
    /\ UNCHANGED <<build, env, customization_options, constructed, fs, wi,
                   used, result, runCount, ghosts>>

CallCargoOutDir == Chain("cargo_out_dir", cargo_out_dir(codegen, CargoOutRel), "include")
CallInclude     == Chain("include", include(codegen, IncludeDir), "input1")
CallInput1      == Chain("input1", input(codegen, CommandRequest), "input2")
CallInput2      == Chain("input2", input(codegen, Response), "input3")
CallInput3      == Chain("input3", input(codegen, ConnectionRequest), "customize")
CallCustomize   == Chain("customize", customize(codegen, customization_options), "out_dir")
CallOutDir      == Chain("out_dir", out_dir(codegen, SrcGenerated), "run_from_script")

(* ------------------- run_from_script, line 21 -------------------------- *)
\* position after a step of run(): on with the next step, or out with an error
Step(ok, next, err) ==
    /\ pc' = IF ok THEN next ELSE "failed"
    /\ result' = IF ok THEN result ELSE err

\* variant: the call returns without waiting for run()
CallRunFromScript_detached ==
    /\ pc = "run_from_script"
    /\ runCount' = runCount + 1
    /\ pc' = "returned"
    /\ UNCHANGED <<build, env, customization_options, constructed, codegen,
                   fs, wi, used, result, ghosts>>
\* the call: run() starts
CallRunFromScript ==
    /\ pc = "run_from_script"
    /\ runCount' = runCount + 1
    /\ pc' = "create_out_dir"
    /\ UNCHANGED <<build, env, customization_options, constructed, codegen,
                   fs, wi, used, result, ghosts>>

\* run(): the output directory must be set; with create_out_dir it is erased
\* and recreated before anything is parsed
RunCreateOutDir ==
    /\ pc = "create_out_dir"
    /\ IF codegen.out_dir = {}
       THEN Step(FALSE, "parse", "OutDirNotSpecified") /\ fs' = fs
       ELSE \E d \in codegen.out_dir :
              IF codegen.create_out_dir
              THEN \E removed \in WriteOutcomes, created \in WriteOutcomes :
                     /\ Step(removed /\ created, "parse", "OutputWriteError")
                     /\ fs' = [fs EXCEPT ![d] =
                                  IF ~removed THEN @
                                  ELSE IF created THEN EmptyDir ELSE NoDir]
              ELSE Step(TRUE, "parse", "OutputWriteError") /\ fs' = fs
    /\ UNCHANGED <<build, env, customization_options, constructed, codegen,
                   wi, used, runCount, ghosts>>

\* variant: a rejected input is skipped instead of failing the run
RunParse_lenient ==
    /\ pc = "parse"
    /\ used' = IF codegen.protoc # {} THEN codegen.protoc ELSE pathProtoc
    /\ Step(\E b \in used' : Executable(b), "write", "CompilerNotFound")
    /\ UNCHANGED <<build, env, customization_options, constructed, codegen,
                   fs, wi, runCount, ghosts>>
\* run(): the protoc parser; the configured path if there is one, else the
\* standard search; all inputs are parsed by one invocation of the binary
RunParse ==
    /\ pc = "parse"
    /\ used' = IF codegen.protoc # {} THEN codegen.protoc ELSE pathProtoc
    /\ IF \A b \in used' : ~Executable(b)
       THEN Step(FALSE, "write", "CompilerNotFound")
       ELSE Step(\A i \in 1..Len(codegen.inputs) :
                     schemas[codegen.inputs[i]] # "invalid",
                 "write", "SchemaSyntaxError")
    /\ UNCHANGED <<build, env, customization_options, constructed, codegen,
                   fs, wi, runCount, ghosts>>

\* run(): the generated files are written one after the other
RunWrite ==
    /\ pc = "write"
    /\ wi < NumArtifacts(codegen)
    /\ \E d \in codegen.out_dir, bin \in used, ok \in WriteOutcomes :
         LET done == ok /\ fs[d].exists
         IN  /\ Step(done, "write", "OutputWriteError")
             /\ fs' = IF done
                      THEN [fs EXCEPT ![d] = WriteFile(@, Artifact(codegen, wi + 1, bin))]
                      ELSE fs
             /\ wi' = IF done THEN wi + 1 ELSE wi
    /\ UNCHANGED <<build, env, customization_options, constructed, codegen,
                   used, runCount, ghosts>>

\* run() returns Ok(()), run_from_script and build_protobuf return
RunOk ==
    /\ pc = "write"
    /\ wi = NumArtifacts(codegen)
    /\ result' = "ok"
    /\ pc' = "returned"
    /\ UNCHANGED <<build, env, customization_options, constructed, codegen,
                   fs, wi, used, runCount, ghosts>>

\* variant: an Err of run() starts the generation again
RunErrExit_retry ==
    /\ pc = "failed"
    /\ pc' = "run_from_script"
    /\ UNCHANGED <<build, env, customization_options, constructed, codegen,
                   fs, wi, used, result, runCount, ghosts>>
\* variant: an Err of run() is dropped and the script goes on
RunErrExit_ignored ==
    /\ pc = "failed"
    /\ pc' = "returned"
    /\ UNCHANGED <<build, env, customization_options, constructed, codegen,
                   fs, wi, used, result, runCount, ghosts>>
\* run_from_script: an Err of run() ends the process with exit code 1
RunErrExit ==
    /\ pc = "failed"
    /\ pc' = "aborted"
    /\ UNCHANGED <<build, env, customization_options, constructed, codegen,
                   fs, wi, used, result, runCount, ghosts>>

\* main returns after build_protobuf has returned
MainReturn ==
    /\ pc = "returned"
    /\ pc' = "done"
    /\ UNCHANGED <<build, env, customization_options, constructed, codegen,
                   fs, wi, used, result, runCount, ghosts>>

(* ------------------------- the next build ------------------------------ *)
OutDirContent(c, f) == IF c.out_dir = {} THEN NoDir ELSE f[CHOOSE d \in c.out_dir : TRUE]

NewBuild ==
    /\ pc \in {"done", "aborted"}
    /\ build < MaxBuilds
    /\ build' = build + 1
    /\ proto' \in BOOLEAN
    /\ PROTOC_PATH' \in EnvChoices
    /\ pathProtoc' \in PathChoices
    /\ schemas' \in SchemaChoices
    /\ diskOk' \in BOOLEAN
    /\ fs' = fs
    /\ fsAtStart' = fs
    /\ last' = IF runCount = 0 THEN last
               ELSE IF result = "ok"
               THEN [ok |-> TRUE, schemas |-> schemas, used |-> used,
                     out |-> OutDirContent(codegen, fs)]
               ELSE NoLast
    /\ pc' = "main"
    /\ customization_options' = CustomizeDefault
    /\ constructed' = FALSE
    /\ codegen' = CodegenNew
    /\ wi' = 0
    /\ used' = {}
    /\ result' = "none"
    /\ runCount' = 0

Next ==
    \/ main
    \/ LetCustomizationOptions
    \/ LetCodegen
    \/ IfLetProtocPath
    \/ CallCargoOutDir
    \/ CallInclude
    \/ CallInput1
    \/ CallInput2
    \/ CallInput3
    \/ CallCustomize
    \/ CallOutDir
    \/ CallRunFromScript
    \/ RunCreateOutDir
    \/ RunParse
    \/ RunWrite
    \/ RunOk
    \/ RunErrExit
    \/ MainReturn
    \/ NewBuild

Spec == Init /\ [][Next]_vars

(* ============================ properties ============================== *)
Errors   == {"CompilerNotFound", "SchemaSyntaxError", "OutputWriteError"}
\* positions inside run_from_script, from the start of run() to its outcome
ExecPcs  == {"create_out_dir", "parse", "write", "failed", "returned"}
Running  == {"create_out_dir", "parse", "write"}
Finished == {"done", "aborted"}
IsUnder(p, d) == Len(d) <= Len(p) /\ SubSeq(p, 1, Len(d)) = d
FixedPolicy ==
    [lite_runtime |-> "false", tokio_bytes |-> "true",
     tokio_bytes_for_string |-> "true"]
\* the files one successful run of the current configuration produces
RunArtifacts == {Artifact(codegen, k, bin) : k \in 1..NumArtifacts(codegen), bin \in used}

\* C1: in a build with the proto feature disabled, build_protobuf is never
\* entered, run_from_script is never called, neither the customization nor the
\* Codegen is constructed, and every directory is as it was when the build began.
C1_DisabledLeavesAllUntouched ==
    ~proto =>
        /\ pc \in {"main", "done"}
        /\ runCount = 0
        /\ ~constructed
        /\ customization_options = CustomizeDefault
        /\ codegen = CodegenNew
        /\ fs = fsAtStart
\* a disabled build has ended, with bindings of an earlier time on disk
C1_Witness ==
    ~proto /\ pc = "done" /\ StaleFile \in fs[SrcGenerated].files

\* C2: in a build with the feature enabled run_from_script is called exactly
\* once: never twice, once by the time the build ends, whatever is on disk and
\* whether or not the inputs changed; once run() has an outcome the script
\* never goes back into it; the feature flag does not change within a build.
C2_RunsExactlyOnce ==
    [][ /\ runCount' <= 1
        /\ (proto' /\ pc' \in Finished => runCount' = 1)
        /\ (build' = build => proto' = proto)
        /\ (build' = build /\ pc \in {"failed", "returned"} \cup Finished
               => pc' \in {"failed", "returned"} \cup Finished /\ runCount' = runCount)
      ]_vars
\* a second build, bindings of a successful first build on disk, inputs
\* unchanged: generation has run again, once
C2_Witness ==
    /\ build = 2 /\ proto /\ pc = "done" /\ runCount = 1
    /\ last.ok /\ last.schemas = schemas
    /\ fsAtStart[SrcGenerated] = last.out

\* C3: the compiler the generation invokes is the value of PROTOC_PATH whenever
\* the variable is set, taken as it is (installed or not), and the result of
\* the standard search when it is not set; no error arises before the
\* generation is attempted.
C3_OverridePrecedence ==
    [][ /\ (pc = "parse" =>
               used' = IF PROTOC_PATH.present THEN {PROTOC_PATH.value} ELSE pathProtoc)
        /\ (runCount' = 0 => pc' \notin {"failed", "aborted"} /\ result' = "none")
      ]_vars

\* C4: when run() fails with CompilerNotFound, SchemaSyntaxError or
\* OutputWriteError, the next step of the script is the exit of the process;
\* a build that has failed stays aborted and never reaches its successful end.
C4_ErrorsAreFatal ==
    [][ /\ (result' \in Errors => pc' \in {"failed", "aborted"})
        /\ (pc = "failed" => pc' = "aborted" /\ result' = result /\ fs' = fs)
        /\ (pc = "aborted" /\ build' = build => pc' = "aborted")
        /\ (pc' = "done" /\ build' = build => result \notin Errors)
      ]_vars
\* a build aborted by a write error after part of the output was written
C4_Witness ==
    pc = "aborted" /\ result = "OutputWriteError" /\ wi > 0

\* C5: a build in which one of the three schema files is rejected never ends
\* successfully and writes no generated file; a build that ends successfully
\* has written the module of every one of the three inputs in this run.
C5_AllOrNothing ==
    /\ (proto /\ (\E p \in InputSet : schemas[p] = "invalid")) => pc # "done" /\ wi = 0
    /\ (proto /\ pc = "done") =>
           /\ wi = NumArtifacts(codegen)
           /\ \A p \in InputSet : \E bin \in used :
                  File(ModuleName(p), schemas[p], bin, "false") \in fs[SrcGenerated].files
\* the response schema alone is rejected and the build was aborted for it
C5_Witness ==
    /\ pc = "aborted" /\ result = "SchemaSyntaxError"
    /\ schemas[Response] = "invalid"
    /\ schemas[CommandRequest] # "invalid" /\ schemas[ConnectionRequest] # "invalid"

C7_Blocking ==
    [][ /\ (proto' /\ pc' = "done" =>
               pc = "returned" /\ result = "ok" /\ wi = NumArtifacts(codegen))
        /\ (pc \in Running =>
               /\ build' = build
               /\ pc' \in Running \cup {"failed", "returned"}
               /\ (pc' = "returned" => result' = "ok")
               /\ (pc' = "failed" => result' \in Errors))
      ]_vars
\* run() is under way with part of the output written
C7_Witness ==
    pc = "write" /\ wi = 2 /\ result = "none"

\* C8 as stated: when run() executes, the output directory is a fixed
\* subdirectory of the root of the build's generated artifacts (cargo's
\* OUT_DIR), and nothing is written elsewhere.
C8_OutputUnderCargoOutDir ==
    pc \in ExecPcs =>
        /\ \A d \in codegen.out_dir : IsUnder(d, <<"$OUT_DIR">>)
        /\ codegen.out_dir # {}
\* C8 amended: when run() executes, the output directory is src/generated,
\* relative to the package directory, whatever PROTOC_PATH holds and whatever
\* earlier builds did; no other directory is ever changed by a build.
C8_OutputIsSrcGenerated ==
    /\ pc \in ExecPcs => codegen.out_dir = {SrcGenerated}
    /\ \A d \in Dirs \ {SrcGenerated} : fs[d] = fsAtStart[d]
\* a later build with the override set has generated into src/generated
\* while $OUT_DIR/protobuf kept its old file
C8_Witness ==
    /\ build > 1 /\ pc = "returned" /\ PROTOC_PATH = EnvOpt
    /\ fs[SrcGenerated] # fsAtStart[SrcGenerated]
    /\ StaleFile \in fs[CargoOutDir(CargoOutRel)].files

\* C9: from the moment run() is called the configuration holds src as the only
\* include directory, exactly the three schema files in the order command
\* request, response, connection request, each under src, and the
\* customization lite_runtime = false, tokio_bytes = true,
\* tokio_bytes_for_string = true; nothing changes the configuration afterwards.
C9_ConfigurationComplete ==
    [][ /\ (pc' \in ExecPcs =>
               /\ codegen'.includes = <<IncludeDir>>
               /\ codegen'.inputs = <<CommandRequest, Response, ConnectionRequest>>
               /\ \A i \in 1..Len(codegen'.inputs) :
                      IsUnder(codegen'.inputs[i], codegen'.includes[1])
               /\ codegen'.customize = FixedPolicy)
        /\ (pc \in ExecPcs /\ build' = build =>
               codegen' = codegen /\ customization_options' = customization_options)
      ]_vars
\* run() is entered in a build without the override, after a build with the
\* override that ran the binary it named
C9_Witness ==
    /\ pc = "create_out_dir" /\ build = 2
    /\ PROTOC_PATH = EnvUnset /\ codegen.protoc = {}
    /\ last.ok /\ last.used = {EnvOpt.value}

\* C10: after a successful run() the output directory holds exactly the files
\* this run wrote; whatever was there before is gone.
C10_NoStaleArtifacts ==
    (proto /\ pc \in {"returned", "done"}) =>
        /\ fs[SrcGenerated].exists
        /\ fs[SrcGenerated].files = RunArtifacts
        /\ StaleFile \notin fs[SrcGenerated].files
\* a successful build that found a file of another configuration in place
C10_Witness ==
    /\ proto /\ pc = "done"
    /\ StaleFile \in fsAtStart[SrcGenerated].files

====
